---- MODULE Spec2Model ----
(***************************************************************************)
(* A model of the phone-call agent: the reminder scheduler                 *)
(* (reminder_checker.py over database.py), the call-status webhook and the *)
(* media-stream handler (twilio_media_streams.py), the outbound call       *)
(* trigger (main_elderly.py) and the Gemini Live session                   *)
(* (gemini_live_client.py).                                                *)
(*                                                                         *)
(* Time is counted in units of five minutes; a scaled-down calendar has    *)
(* DayLen units per day, WeekLen days per week (the first WeekLen weekday  *)
(* names) and MonthLen days per month.  Day 0 is a Monday and the last day *)
(* of its month.                                                           *)
(***************************************************************************)
EXTENDS Integers, Sequences, FiniteSets, TLC

\* ------------------------------------------------------------------ bounds
DayLen == 2          \* time units per calendar day
WeekLen == 3         \* days per calendar week
MonthLen == 2        \* days per calendar month
MaxDay == 3          \* SpecSchedule: the clock stops at the end of day MaxDay
MaxCallsSchedule == 1 \* SpecSchedule: telephone calls per behaviour
MaxCalls == 2        \* SpecCalls: telephone calls per behaviour
MaxCallsBridge == 1  \* SpecBridge: telephone calls per behaviour
MaxFrames == 52      \* SpecBridge: media frames per behaviour
MaxFailures == 1     \* SpecBridge: frames whose transcoding or forwarding fails
MaxFramesCarry == 1   \* SpecCarry: media frames per behaviour
MaxFailuresCarry == 1 \* SpecCarry: sends into the session that fail
MaxFramesOrder == 5  \* SpecOrder: media frames per behaviour
MaxFailuresOrder == 2  \* SpecOrder: frames whose transcoding or forwarding fails
MaxFramesAnnounce == 2  \* SpecAnnounce: media frames per behaviour
MaxFailuresAnnounce == 1  \* SpecAnnounce: sends into the session that fail
MaxSamples == 4           \* SpecAudio: samples of a frame of audio
MaxTimeRecurring == 2     \* SpecRecurring: the last instant the clock reaches

\* --------------------------------------------------------------- constants
None == 0                    \* pending_reminder_id = None; ids start at 1
Never == -1                  \* last_triggered IS NULL
RescheduleDelay == 1         \* timedelta(minutes=5), one time unit
max_buffer_size == 50

ReminderIds == {1, 2}      \* the rows of the reminders table

WeekdayNames == <<"monday", "tuesday", "wednesday", "thursday", "friday",
                  "saturday", "sunday">>

\* ---------------------------------------------------------------- calendar
\* datetime.date()
DateOf(t) == t \div DayLen
\* the time of day of a datetime
TimeOfDay(t) == t % DayLen
\* datetime.strftime('%A').lower()
DayName(t) == WeekdayNames[(DateOf(t) % WeekLen) + 1]
\* datetime.day, counted from 1 (day 0 is the last day of a month)
DayOfMonth(t) == ((DateOf(t) + MonthLen - 1) % MonthLen) + 1
\* datetime.replace(day=day + 1) raises ValueError past the month's last day
ReplaceDayRaises(t) == DayOfMonth(t) + 1 > MonthLen
ReplaceDayPlusOne(t) == t + DayLen
\* datetime.replace(year=, month=, day=) of another datetime: same time of day
ReplaceDate(t, cur) == DateOf(cur) * DayLen + TimeOfDay(t)

VARIABLES
    clock,                \* datetime.now()
    reminders,            \* the reminders table: id -> row
    in_phone_call,        \* ReminderChecker.in_phone_call
    pending_reminder_id,  \* ReminderChecker.pending_reminder_id
    call_was_answered,    \* ReminderChecker.call_was_answered
    tick_now,             \* _check_reminders: now
    due_reminders,        \* _check_reminders: the due reminders not yet handled
    pending_reminder,     \* TwilioMediaStreamsHandler.pending_reminder
    active_connections,   \* TwilioMediaStreamsHandler.active_connections (keys)
    calls,                \* the telephone calls: their telephony and handler state
    _session_context,     \* GeminiLiveClient._session_context (the call it was opened for)
    session,              \* GeminiLiveClient.session
    is_connected,         \* GeminiLiveClient.is_connected
    audio_buffer,         \* TwilioMediaStreamsHandler.audio_buffer
    is_reconnecting,      \* TwilioMediaStreamsHandler.is_reconnecting
    reconnect_task,       \* the _reconnect_gemini task: its position, buffer_copy
    frame,                \* the number of media events received so far
    failures,             \* the number of frames that failed so far
    enq,                  \* the frames offered to audio_buffer since it was last cleared
    receive_loop,         \* the _receive_loop task connect() created last
    tool_call,            \* _handle_function_calls: tool_call.function_calls
    handling,             \* _handle_function_calls: the index of fc in its for loop
    function_responses,   \* the function responses sent into the session for tool_call
    handled,              \* what became of each function call handled so far
    forwarded,            \* the caller's frames session.send has taken: the last, the latest;
                          \* and what the handler of the frames sent at its opening
    scenario,             \* the run: how many media events arrive, how many may fail
    running,              \* ReminderChecker.running
    start_task,           \* ReminderChecker.start(): the poll loop's coroutine
    audio,                \* one frame of audio on its way through the two conversions
    ev,                   \* the operation that ran last, and what it did
    fired,                \* per reminder: when the scheduler's ticks found it due
    tick                  \* the last tick: the reminders it found due, and those
                          \* it invoked the call trigger for while not in a call

schedVars == <<clock, reminders, in_phone_call, pending_reminder_id,
               call_was_answered, tick_now, due_reminders>>
handlerVars == <<pending_reminder, active_connections, calls>>
geminiVars == <<_session_context, session, is_connected>>
bridgeVars == <<audio_buffer, is_reconnecting, reconnect_task, frame, failures, enq,
               forwarded>>
dispatchVars == <<tool_call, handling, function_responses, handled>>
pollVars == <<running, start_task>>
codecVars == <<audio>>
ghostVars == <<ev, fired, tick>>

vars == <<schedVars, handlerVars, geminiVars, bridgeVars, receive_loop,
          dispatchVars, scenario, pollVars, codecVars, ghostVars>>

\* ------------------------------------------------------------ the store
\* A stamp that skips the reminders already marked complete
mark_reminder_triggered_if_active(tbl, id, now) ==
    IF tbl[id].active THEN [tbl EXCEPT ![id].last_triggered = now] ELSE tbl

\* Database.mark_reminder_triggered
mark_reminder_triggered(tbl, id, now) ==
    [tbl EXCEPT ![id].last_triggered = now]

\* Database.mark_reminder_complete
mark_reminder_complete(tbl, id) ==
    [tbl EXCEPT ![id].active = FALSE]

\* Database.reschedule_reminder
reschedule_reminder(tbl, id, new_datetime) ==
    [tbl EXCEPT ![id].datetime = new_datetime]

\* Database.update_reminder(id, datetime=...)
update_reminder(tbl, id, new_datetime) ==
    [tbl EXCEPT ![id].datetime = new_datetime]

\* Database.get_reminders(active_only=True): the ids, ORDER BY datetime
RECURSIVE OrderByDatetime(_, _)
OrderByDatetime(tbl, ids) ==
    IF ids = {} THEN <<>>
    ELSE LET first == CHOOSE i \in ids : \A j \in ids :
                          \/ tbl[i].datetime < tbl[j].datetime
                          \/ tbl[i].datetime = tbl[j].datetime /\ i <= j
         IN <<first>> \o OrderByDatetime(tbl, ids \ {first})

get_reminders(tbl) ==
    OrderByDatetime(tbl, {i \in DOMAIN tbl : tbl[i].active})

\* A due test with no weekday filter: a recurring row is withheld only by
\* its last_triggered date
IsDueOnAnyWeekday(r, current_time) ==
    /\ r.datetime <= current_time
    /\ r.recurrence # "none" =>
          ~(/\ r.last_triggered # Never
            /\ DateOf(r.last_triggered) = DateOf(current_time))

\* Database.get_due_reminders: the test one row passes to be appended to due
IsDue(r, current_time) ==
    /\ r.datetime <= current_time
    /\ r.recurrence # "none" =>
          /\ ~(/\ r.last_triggered # Never
               /\ DateOf(r.last_triggered) = DateOf(current_time))
          /\ ~(/\ r.recurrence = "weekly"
               /\ r.days_of_week # {}
               /\ DayName(current_time) \notin r.days_of_week)

\* Database.get_due_reminders
get_due_reminders(tbl, current_time) ==
    SelectSeq(get_reminders(tbl), LAMBDA i : IsDue(tbl[i], current_time))

\* ------------------------------------------------------- ghost records
\* What the last operation was: op, the reminder and the call it was about,
\* its input or outcome, whether it raised, and pending_reminder_id before it.
Ev(op, id, call, arg, raised) ==
    [op |-> op, id |-> id, call |-> call, arg |-> arg, raised |-> raised,
     pend0 |-> pending_reminder_id]

\* The ghost variables after an operation that is no part of a tick: e is the
\* operation; the tick is forgotten once it has ended.
NoTick == [due |-> <<>>, called |-> <<>>]

Ghost(e) ==
    /\ ev' = e
    /\ tick' = IF due_reminders = <<>> THEN NoTick ELSE tick
    /\ UNCHANGED fired

\* The order of events of one call that the delivery scenario names
DeliverySequence == <<"start", "in-progress", "completed", "stop">>

\* A call's events so far while they follow DeliverySequence, else <<"other">>
Log(log, e) ==
    IF /\ Len(log) < Len(DeliverySequence)
       /\ log = SubSeq(DeliverySequence, 1, Len(log))
       /\ e = DeliverySequence[Len(log) + 1]
    THEN Append(log, e)
    ELSE <<"other">>

\* A recurring reminder found due by a tick at instant now: the first instant
\* a tick found it due at, the last one, and in how many ticks on that last date.
Fire(f, now) ==
    [first |-> IF f.first = Never THEN now ELSE f.first,
     last  |-> now,
     n     |-> IF f.last # Never /\ DateOf(f.last) = DateOf(now) THEN f.n + 1 ELSE 1]

\* ------------------------------------------------------ ReminderChecker
\* A delivery that completes the reminder whether it recurs or not
delivered_completes_all(tbl, id) == mark_reminder_complete(tbl, id)

\* ReminderChecker._handle_call_ended, the call was answered: a reminder that
\* does not recur is marked complete, a recurring one is left to its schedule
delivered(tbl, id) ==
    IF tbl[id].recurrence # "none" THEN tbl ELSE mark_reminder_complete(tbl, id)

\* ReminderChecker._handle_call_ended, entered with a pending reminder
_handle_call_ended ==
    LET reminder_id == pending_reminder_id IN
    /\ reminders' =
         IF call_was_answered
         THEN delivered(reminders, reminder_id)
         ELSE reschedule_reminder(reminders, reminder_id, clock + RescheduleDelay)
    /\ pending_reminder_id' = None
    /\ call_was_answered' = FALSE

\* ReminderChecker.set_in_call
set_in_call(in_call) ==
    /\ in_phone_call' = in_call
    /\ IF in_phone_call /\ ~in_call /\ pending_reminder_id # None
       THEN _handle_call_ended
       ELSE UNCHANGED <<reminders, pending_reminder_id, call_was_answered>>

\* ReminderChecker.set_call_answered
set_call_answered(answered) ==
    call_was_answered' = answered

\* ReminderChecker._schedule_next_occurrence on the row r the tick read:
\* whether it raised, and the table it leaves
_schedule_next_occurrence(tbl, id, r, current_time) ==
    IF r.recurrence = "daily"
    THEN LET next_time == ReplaceDate(r.datetime, current_time) IN
         IF next_time <= current_time
         THEN IF ReplaceDayRaises(next_time)
              THEN [raised |-> TRUE, tbl |-> tbl]
              ELSE [raised |-> FALSE,
                    tbl |-> update_reminder(tbl, id, ReplaceDayPlusOne(next_time))]
         ELSE [raised |-> FALSE, tbl |-> update_reminder(tbl, id, next_time)]
    ELSE IF r.recurrence = "weekly"
    THEN IF ReplaceDayRaises(r.datetime)
         THEN [raised |-> TRUE, tbl |-> tbl]
         ELSE [raised |-> FALSE,
               tbl |-> update_reminder(tbl, id, ReplaceDayPlusOne(r.datetime))]
    ELSE [raised |-> FALSE, tbl |-> tbl]

\* ElderlyPhoneAgent._trigger_reminder_call: whether the failure of make_call
\* reaches the caller (it is caught and logged)
trigger_raises(outcome) == FALSE

\* A call as Twilio and the media-stream handler see it
NewCall(reminder_id, phase, whq) ==
    [reminder |-> reminder_id, phase |-> phase, whq |-> whq,
     stream |-> "none", log |-> <<>>, pending |-> None, texts |-> <<>>,
     stopped |-> FALSE]

\* TwilioMediaStreamsHandler.make_call with the reminder's message:
\* calls.create succeeds ("placed") or raises ("failed")
make_call(reminder_id, outcome) ==
    /\ pending_reminder' = reminder_id
    /\ calls' = IF outcome = "placed"
                THEN Append(calls, NewCall(reminder_id, "ringing", <<>>))
                ELSE calls

\* A poll loop with no except clause: an exception of a tick ends start()
start_uncaught(raised) == IF raised THEN "ended" ELSE "sleeping"

\* ReminderChecker.start: its loop after a tick that raised or not: the
\* exception is caught and logged, and the loop sleeps for the interval
start_except(raised) == "sleeping"

\* ReminderChecker.stop
stop ==
    /\ running
    /\ running' = FALSE
    /\ Ghost(Ev("stop_checker", None, 0, "", FALSE))
    /\ UNCHANGED <<schedVars, handlerVars, geminiVars, bridgeVars, receive_loop,
                   dispatchVars, scenario, start_task,
                   codecVars>>

\* ReminderChecker.start: the loop finds running false after its sleep, and
\* start() returns
start_returns ==
    /\ ~running /\ start_task = "sleeping"
    /\ due_reminders = <<>>
    /\ start_task' = "ended"
    /\ Ghost(Ev("start_returns", None, 0, "", FALSE))
    /\ UNCHANGED <<schedVars, handlerVars, geminiVars, bridgeVars, receive_loop,
                   dispatchVars, scenario, running,
                   codecVars>>

\* ElderlyPhoneAgent.shutdown_async: reminder_checker.stop(), then the task
\* of start() is cancelled.  The task is suspended only in its sleep (the
\* call trigger and the rescheduling await nothing that suspends), so the
\* CancelledError is raised there and ends start().
shutdown_async ==
    /\ due_reminders = <<>>
    /\ running' = FALSE
    /\ start_task' = "ended"
    /\ Ghost(Ev("shutdown", None, 0, start_task, FALSE))
    /\ UNCHANGED <<schedVars, handlerVars, geminiVars, bridgeVars, receive_loop,
                   dispatchVars, scenario, codecVars>>

\* ReminderChecker._check_reminders up to its loop: one tick of start()
_check_reminders ==
    /\ running /\ start_task = "sleeping"
    /\ due_reminders = <<>>
    /\ due_reminders' = get_due_reminders(reminders, clock)
    /\ tick_now' = IF due_reminders' = <<>> THEN 0 ELSE clock
    /\ fired' = [i \in ReminderIds |->
                   IF /\ reminders[i].recurrence # "none"
                      /\ \E k \in 1..Len(due_reminders') : due_reminders'[k] = i
                   THEN Fire(fired[i], clock) ELSE fired[i]]
    /\ tick' = [due |-> due_reminders', called |-> <<>>]
    /\ ev' = Ev("tick", None, 0, "", FALSE)
    /\ UNCHANGED <<clock, reminders, in_phone_call, pending_reminder_id,
                   call_was_answered, handlerVars, geminiVars, bridgeVars>>
    /\ UNCHANGED <<receive_loop, dispatchVars, scenario, pollVars,
                   codecVars>>

\* An in-call branch that completes every reminder it announces
announced_in_call_completes_all(tbl, id, r) == mark_reminder_complete(tbl, id)

\* ReminderChecker._handle_due_reminder, the in-call branch: the reminder is
\* announced during the call, and marked complete if it does not recur
announced_in_call(tbl, id, r) ==
    IF r.recurrence = "none" THEN mark_reminder_complete(tbl, id) ELSE tbl

\* ReminderChecker._handle_due_reminder for the next due reminder of the tick.
\* An exception of _schedule_next_occurrence ends the tick (start() logs it).
_handle_due_reminder(max_calls) ==
    /\ due_reminders # <<>>
    /\ LET reminder_id == Head(due_reminders)
           r == reminders[reminder_id]
       IN \E outcome \in IF in_phone_call THEN {"in-call"} ELSE {"placed", "failed"} :
          /\ outcome = "placed" => Len(calls) < max_calls
          /\ IF in_phone_call
             THEN /\ UNCHANGED <<pending_reminder_id, call_was_answered,
                                 pending_reminder, calls, tick>>
             ELSE /\ pending_reminder_id' =
                       IF trigger_raises(outcome) THEN None ELSE reminder_id
                  /\ call_was_answered' = FALSE
                  /\ make_call(reminder_id, outcome)
                  /\ tick' = [tick EXCEPT !.called = Append(@, reminder_id)]
          /\ LET tbl1 == IF in_phone_call
                         THEN announced_in_call(reminders, reminder_id, r)
                         ELSE reminders
                 tbl2 == mark_reminder_triggered(tbl1, reminder_id, clock)
                 next == IF r.recurrence # "none"
                         THEN _schedule_next_occurrence(tbl2, reminder_id, r, tick_now)
                         ELSE [raised |-> FALSE, tbl |-> tbl2]
             IN /\ reminders' = next.tbl
                /\ due_reminders' = IF next.raised THEN <<>> ELSE Tail(due_reminders)
                /\ start_task' = start_except(next.raised)
                /\ ev' = Ev("handle", reminder_id,
                            IF outcome = "placed" THEN Len(calls) + 1 ELSE 0,
                            outcome, next.raised)
    /\ tick_now' = IF due_reminders' = <<>> THEN 0 ELSE tick_now
    /\ UNCHANGED <<clock, in_phone_call, active_connections, geminiVars,
                   bridgeVars, fired>>
    /\ UNCHANGED <<receive_loop, dispatchVars, scenario, running,
                   codecVars>>

\* ------------------------------------------------------ GeminiLiveClient
\* GeminiLiveClient.connect for call c: the handshake succeeds, and a
\* receive loop is started, or it raises.  receive_loop follows the loop that
\* is handling function calls, or else the loop started last.
connect(c, ok) ==
    /\ _session_context' = c
    /\ session' = IF ok THEN c ELSE session
    /\ is_connected' = IF ok THEN TRUE ELSE is_connected
    /\ receive_loop' = IF ok /\ receive_loop # "dispatching"
                       THEN "listening" ELSE receive_loop

\* GeminiLiveClient.disconnect takes its guarded branch (and awaits __aexit__)
DisconnectAwaits(ctx, connected) == ctx # None /\ connected

\* GeminiLiveClient.disconnect once __aexit__ has returned (ok) or raised
disconnect(ok) ==
    IF DisconnectAwaits(_session_context, is_connected) /\ ok
    THEN /\ is_connected' = FALSE
         /\ session' = None
         /\ _session_context' = None
    ELSE UNCHANGED geminiVars

\* GeminiLiveClient.disconnect, what a call of it did: nothing, a graceful
\* close, or a close that failed (the exception is caught and logged)
DisconnectOutcome(ok) ==
    IF ~DisconnectAwaits(_session_context, is_connected) THEN "no-op"
    ELSE IF ok THEN "closed" ELSE "close-failed"

\* GeminiLiveClient.disconnect: whether an exception leaves it
disconnect_raises(ok) == FALSE

\* GeminiLiveClient._receive_loop: a transport error ends the loop
_receive_loop_error ==
    /\ due_reminders = <<>>
    /\ is_connected /\ receive_loop = "listening"
    /\ is_connected' = FALSE
    /\ receive_loop' = "ended"
    /\ Ghost(Ev("drop", None, 0, "", FALSE))
    /\ UNCHANGED <<schedVars, handlerVars, _session_context, session, bridgeVars>>
    /\ UNCHANGED <<dispatchVars, scenario, pollVars,
                   codecVars>>

\* ------------------------------------------------------------ audio
\* The sample rates of the session's PCM and of the telephone's mu-law
GeminiRate == 24000
TwilioRate == 8000

\* No frame is being converted
NoAudio == [stage |-> "none", input |-> <<>>, data |-> <<>>]

RECURSIVE Gcd(_, _)
Gcd(a, b) == IF b = 0 THEN a ELSE Gcd(b, a % b)

\* audioop.ratecv, its loop from one position: while d < 0 the next input
\* sample is read, while d >= 0 an output sample is interpolated between the
\* last two samples read; the loop ends when a sample is needed and none is left
RECURSIVE ratecv_from(_, _, _, _, _, _, _)
ratecv_from(fragment, inrate, outrate, d, prev_i, cur_i, out) ==
    IF d < 0
    THEN IF fragment = <<>> THEN out
         ELSE ratecv_from(Tail(fragment), inrate, outrate, d + outrate,
                          cur_i, Head(fragment), out)
    ELSE ratecv_from(fragment, inrate, outrate, d - inrate, prev_i, cur_i,
                     Append(out, (prev_i * d + cur_i * (outrate - d)) \div outrate))

\* audioop.ratecv(fragment, 2, 1, inrate, outrate, None): mono 16-bit samples,
\* no state carried from the frame before
ratecv(fragment, inrate, outrate) ==
    LET g == Gcd(inrate, outrate) IN
    ratecv_from(fragment, inrate \div g, outrate \div g, -(outrate \div g),
                0, 0, <<>>)

\* The upper ends of the segments of mu-law
seg_uend == <<63, 127, 255, 511, 1023, 2047, 4095, 8191>>

\* audioop.lin2ulaw(fragment, 2), one 16-bit sample to one mu-law byte
lin2ulaw_sample(sample) ==
    LET pcm_val == sample \div 4
        mask == IF pcm_val < 0 THEN 127 ELSE 255
        magnitude == IF pcm_val < 0 THEN -pcm_val ELSE pcm_val
        val == (IF magnitude > 8159 THEN 8159 ELSE magnitude) + 33
        segs == {k \in DOMAIN seg_uend : val <= seg_uend[k]}
        seg == (CHOOSE k \in segs : \A j \in segs : k <= j) - 1
    IN IF segs = {} THEN mask - 127
       ELSE mask - (seg * 16 + ((val \div 2^(seg + 1)) % 16))

lin2ulaw(fragment) == [k \in DOMAIN fragment |-> lin2ulaw_sample(fragment[k])]

\* audioop.ulaw2lin(fragment, 2), one mu-law byte to one 16-bit sample
ulaw2lin_sample(byte) ==
    LET u_val == 255 - byte
        t == ((u_val % 16) * 8 + 132) * 2^((u_val % 128) \div 16)
    IN IF u_val >= 128 THEN 132 - t ELSE t - 132

ulaw2lin(fragment) == [k \in DOMAIN fragment |-> ulaw2lin_sample(fragment[k])]

\* send_audio_to_twilio: the session's PCM becomes the payload for the caller
send_audio_to_twilio ==
    /\ audio.stage = "gemini"
    /\ audio' = [audio EXCEPT !.stage = "twilio",
                   !.data = lin2ulaw(ratecv(audio.data, GeminiRate, TwilioRate))]
    /\ UNCHANGED <<schedVars, handlerVars, geminiVars, bridgeVars, receive_loop,
                   dispatchVars, scenario, pollVars, ghostVars>>

\* handle_media_stream, the media event up to its send: a payload of the
\* caller becomes PCM for the session
MediaDecode ==
    /\ audio.stage = "twilio"
    /\ audio' = [audio EXCEPT !.stage = "session",
                   !.data = ratecv(ulaw2lin(audio.data), TwilioRate, GeminiRate)]
    /\ UNCHANGED <<schedVars, handlerVars, geminiVars, bridgeVars, receive_loop,
                   dispatchVars, scenario, pollVars, ghostVars>>

\* ------------------------------------------- TwilioMediaStreamsHandler
Unanswered == {"failed", "busy", "no-answer", "canceled"}

\* status_webhook: the next status callback of call c arrives (Flask thread)
status_webhook(c) ==
    /\ calls[c].whq # <<>>
    /\ LET call_status == Head(calls[c].whq) IN
       /\ IF call_status = "in-progress" THEN set_call_answered(TRUE)
          ELSE IF call_status \in Unanswered THEN set_call_answered(FALSE)
          ELSE UNCHANGED call_was_answered
       /\ active_connections' =
            IF call_status \in {"completed", "failed", "busy", "no-answer"}
            THEN active_connections \ {c} ELSE active_connections
       /\ calls' = [calls EXCEPT ![c].whq = Tail(@),
                                 ![c].log = Log(@, call_status)]
       /\ Ghost(Ev("status", calls[c].reminder, c, call_status, FALSE))
    /\ UNCHANGED <<clock, reminders, in_phone_call, pending_reminder_id,
                   tick_now, due_reminders, pending_reminder, geminiVars,
                   bridgeVars>>
    /\ UNCHANGED <<receive_loop, dispatchVars, scenario, pollVars,
                   codecVars>>

\* handle_media_stream leaves its message loop for call c, whose position
\* becomes pos: the finally block runs to its end at once unless disconnect()
\* awaits the session's close, and then set_in_call(False) is its last step.
\* stopped tells whether the stop event's set_in_call(False) ran first.
EnterFinallyOf(cs, c, stopped, log) ==
    IF DisconnectAwaits(_session_context', is_connected')
    THEN /\ calls' = [cs EXCEPT ![c].stream = "stopping", ![c].log = log,
                                ![c].pending = None, ![c].texts = <<>>,
                                ![c].stopped = stopped]
         /\ UNCHANGED active_connections
         /\ IF stopped THEN set_in_call(FALSE)
            ELSE UNCHANGED <<reminders, in_phone_call, pending_reminder_id,
                             call_was_answered>>
    ELSE /\ calls' = [cs EXCEPT ![c].stream = "closed", ![c].log = log,
                                ![c].pending = None, ![c].texts = <<>>]
         /\ active_connections' = active_connections \ {c}
         /\ set_in_call(FALSE)

EnterFinally(c, stopped, log) == EnterFinallyOf(calls, c, stopped, log)

\* What can go wrong with a send while failures are left to happen
Failing(outcomes) == IF failures < scenario.failures THEN outcomes ELSE {}

\* The failures so far, after a send ended with outcome
CountFailure(outcome) ==
    IF outcome \in Failing({"fault", "error"}) THEN failures + 1 ELSE failures

\* handle_media_stream reaches its message loop with no send failing: the
\* loop is reached on the success of connect whatever send_text did
OpenedOnConnect(ok, time_msg, reminder_msg) == ok

\* handle_media_stream reaches its message loop: connect succeeded, the time
\* context was sent and, with a reminder pending, its announcement was sent
Opened(ok, time_msg, reminder_msg) ==
    /\ ok
    /\ time_msg = "sent"
    /\ pending_reminder # None => reminder_msg = "sent"

\* The texts handle_media_stream has sent into the session before its loop
SentTexts(ok, time_msg, reminder_msg) ==
    IF ~ok \/ time_msg # "sent" THEN <<>>
    ELSE IF pending_reminder # None /\ reminder_msg = "sent"
    THEN <<"time", "reminder">>
    ELSE <<"time">>

\* handle_media_stream, from the accepted socket to the message loop:
\* connect, the time context, the pending reminder announcement.  send_text
\* is called on the session connect has just opened; an exception of connect
\* or of a send_text leads to the finally block.
StreamOpen(c) ==
    /\ due_reminders = <<>>
    /\ calls[c].phase = "live" /\ calls[c].stream = "none"
    /\ \E ok \in BOOLEAN :
       \E time_msg \in IF ok THEN {"sent"} \cup Failing({"fault", "error"})
                        ELSE {"unsent"} :
       \E reminder_msg \in IF ok /\ time_msg = "sent" /\ pending_reminder # None
                            THEN {"sent"} \cup Failing({"fault", "error"})
                            ELSE {"unsent"} :
         LET texts == SentTexts(ok, time_msg, reminder_msg)
             opening == [calls EXCEPT ![c].pending = pending_reminder,
                                      ![c].texts = texts]
         IN
         /\ connect(c, ok)
         /\ failures' = IF {time_msg, reminder_msg} \subseteq {"sent", "unsent"}
                        THEN failures ELSE failures + 1
         /\ pending_reminder' = IF Len(texts) = 2 THEN None ELSE pending_reminder
         /\ IF Opened(ok, time_msg, reminder_msg)
            THEN /\ calls' = [opening EXCEPT ![c].stream = "open"]
                 /\ UNCHANGED <<reminders, in_phone_call, pending_reminder_id,
                                call_was_answered, active_connections>>
            ELSE EnterFinallyOf(opening, c, FALSE, calls[c].log)
         /\ Ghost(Ev("open", calls[c].reminder, c, "",
                     ~Opened(ok, time_msg, reminder_msg)))
    /\ UNCHANGED <<clock, tick_now, due_reminders, audio_buffer, is_reconnecting,
                   reconnect_task, frame, enq, forwarded>>
    /\ UNCHANGED <<dispatchVars, scenario, pollVars,
                   codecVars>>

\* handle_media_stream: the start event
StreamStart(c) ==
    /\ due_reminders = <<>>
    /\ calls[c].stream = "open"
    /\ active_connections' = active_connections \cup {c}
    /\ set_in_call(TRUE)
    /\ calls' = [calls EXCEPT ![c].stream = "started",
                              ![c].log = Log(@, "start")]
    /\ Ghost(Ev("start", calls[c].reminder, c, "", FALSE))
    /\ UNCHANGED <<clock, tick_now, due_reminders, pending_reminder, geminiVars,
                   bridgeVars>>
    /\ UNCHANGED <<receive_loop, dispatchVars, scenario, pollVars,
                   codecVars>>

\* handle_media_stream: the stop event, then into the finally block
StreamStop(c) ==
    /\ due_reminders = <<>>
    /\ calls[c].stream = "started" /\ calls[c].phase = "over"
    /\ UNCHANGED geminiVars
    /\ EnterFinally(c, TRUE, Log(calls[c].log, "stop"))
    /\ Ghost(Ev("stop", calls[c].reminder, c, "", FALSE))
    /\ UNCHANGED <<clock, tick_now, due_reminders, pending_reminder, bridgeVars>>
    /\ UNCHANGED <<receive_loop, dispatchVars, scenario, pollVars,
                   codecVars>>

\* handle_media_stream: the socket closes with no stop event
StreamClosed(c) ==
    /\ due_reminders = <<>>
    /\ calls[c].stream \in {"open", "started"} /\ calls[c].phase = "over"
    /\ UNCHANGED geminiVars
    /\ EnterFinally(c, FALSE, Log(calls[c].log, "closed"))
    /\ Ghost(Ev("closed", calls[c].reminder, c, "", FALSE))
    /\ UNCHANGED <<clock, tick_now, due_reminders, pending_reminder, bridgeVars>>
    /\ UNCHANGED <<receive_loop, dispatchVars, scenario, pollVars,
                   codecVars>>

\* handle_media_stream: the finally block once disconnect() has returned
StreamFinally(c) ==
    /\ due_reminders = <<>>
    /\ calls[c].stream = "stopping"
    /\ \E ok \in BOOLEAN :
         /\ disconnect(ok)
         /\ Ghost(Ev("finally", calls[c].reminder, c, "", ~ok))
    /\ active_connections' = active_connections \ {c}
    /\ set_in_call(FALSE)
    /\ calls' = [calls EXCEPT ![c].stream = "closed", ![c].stopped = FALSE]
    /\ UNCHANGED <<clock, tick_now, due_reminders, pending_reminder, bridgeVars>>
    /\ UNCHANGED <<receive_loop, dispatchVars, scenario, pollVars,
                   codecVars>>

\* An oldest-dropped buffer: a full buffer gives up its head for the new frame
buffer_audio_oldest_dropped(buffer, chunk) ==
    IF Len(buffer) < max_buffer_size
    THEN Append(buffer, chunk)
    ELSE Append(Tail(buffer), chunk)

\* A reconnection buffer with no bound: every frame offered is appended
buffer_audio_unbounded(buffer, chunk) == Append(buffer, chunk)

\* handle_media_stream, media event: the frame is appended to audio_buffer
\* unless the buffer is full
buffer_audio(buffer, chunk) ==
    IF Len(buffer) < max_buffer_size THEN Append(buffer, chunk) ELSE buffer

\* send_audio with no test of the connection: session.send is always tried
send_audio_unguarded == {"sent"} \cup Failing({"fault", "error"})

\* GeminiLiveClient.send_audio: what a call of it can do. It raises "Not
\* connected" with no session or no liveness; session.send forwards the frame
\* ("sent"), or raises a connection fault such as a 1008 close ("fault") or
\* another error ("error").  The debug log it appends to is taken to be
\* writable.
send_audio ==
    IF session = None \/ ~is_connected
    THEN {"fault"}
    ELSE {"sent"} \cup Failing({"fault", "error"})

\* GeminiLiveClient.send_text: what a call of it can do, as for send_audio
send_text ==
    IF session = None \/ ~is_connected
    THEN {"fault"}
    ELSE {"sent"} \cup Failing({"fault", "error"})

NoTask == [pc |-> "none", buffer_copy |-> <<>>]

\* session.send has taken frame number f of the caller's audio
Forward(f) ==
    [forwarded EXCEPT !.last = f,
                      !.latest = IF f > forwarded.latest THEN f ELSE forwarded.latest]

\* A media branch that tests the liveness of the session alone
media_outcomes_by_liveness ==
    IF ~is_connected THEN {"buffered"} ELSE send_audio

\* handle_media_stream, media event: the decoded frame goes to the
\* reconnection buffer when a reconnection is under way or the session is
\* not connected (the conversions before the test do not raise: every byte
\* is a mu-law sample), else send_audio is called
media_outcomes ==
    IF is_reconnecting \/ ~is_connected THEN {"buffered"} ELSE send_audio

\* An except arm that takes every error of the conversion and the send for
\* a fault of the connection
is_connection_fault_any_error(outcome) == outcome \in {"fault", "error"}

\* handle_media_stream, the except arm of the media event: the error is a
\* fault of the connection when its text holds "Not connected" or "1008"
is_connection_fault(outcome) == outcome = "fault"

\* handle_media_stream, media event of call c carrying frame number frame + 1.
\* An error that is no fault of the connection is raised again, logged by the
\* handler of the message and the loop goes on with the next message.
Media(c) ==
    /\ due_reminders = <<>>
    /\ calls[c].stream = "started" /\ calls[c].phase = "live"
    /\ frame < scenario.frames
    /\ frame' = frame + 1
    /\ \E outcome \in media_outcomes :
         /\ failures' = CountFailure(outcome)
         /\ IF outcome = "buffered" \/ is_connection_fault(outcome)
            THEN /\ audio_buffer' = buffer_audio(audio_buffer, frame')
                 /\ enq' = Append(enq, frame')
            ELSE UNCHANGED <<audio_buffer, enq>>
         /\ forwarded' = [IF outcome = "sent" THEN Forward(frame') ELSE forwarded
                            EXCEPT !.context = [pending |-> calls[c].pending,
                                                texts |-> calls[c].texts]]
         /\ IF is_connection_fault(outcome) /\ ~is_reconnecting
            THEN /\ is_reconnecting' = TRUE
                 /\ reconnect_task' = [pc |-> "wait", buffer_copy |-> <<>>]
            ELSE UNCHANGED <<is_reconnecting, reconnect_task>>
         /\ Ghost(Ev("media", calls[c].reminder, c, outcome, FALSE))
    /\ UNCHANGED <<schedVars, handlerVars, geminiVars>>
    /\ UNCHANGED <<receive_loop, dispatchVars, scenario, pollVars,
                   codecVars>>

\* handle_media_stream, the stream_sid of the handler of call c: None until
\* the start event has been processed
stream_sid(c) == IF c \in active_connections THEN c ELSE None

\* _receive_loop calls on_audio_response with audio of the model: the
\* callback is send_audio_to_twilio of the handler that opened the session,
\* which frames the audio as a media message with its stream_sid and sends
\* it on its websocket while the socket is open
on_audio_response ==
    /\ due_reminders = <<>>
    /\ receive_loop = "listening" /\ is_connected
    /\ session \in 1..Len(calls)
    /\ calls[session].stream \in {"open", "started", "stopping"}
    /\ Ghost(Ev("audio_response", calls[session].reminder, session,
                IF stream_sid(session) = None THEN "untagged" ELSE "tagged",
                FALSE))
    /\ UNCHANGED <<schedVars, handlerVars, geminiVars, bridgeVars>>
    /\ UNCHANGED <<receive_loop, dispatchVars, scenario, pollVars,
                   codecVars>>

\* handle_media_stream, media event of call c whose payload is no base64
\* text or is missing: b64decode or the subscript raises before the
\* conversion, the handler of the message logs the error and the loop goes
\* on with the next message.  No frame was decoded.
MediaUndecodable(c) ==
    /\ due_reminders = <<>>
    /\ calls[c].stream = "started" /\ calls[c].phase = "live"
    /\ failures < scenario.failures
    /\ failures' = failures + 1
    /\ Ghost(Ev("media", calls[c].reminder, c, "undecodable", FALSE))
    /\ UNCHANGED <<schedVars, handlerVars, geminiVars, audio_buffer,
                   is_reconnecting, reconnect_task, frame, enq, forwarded>>
    /\ UNCHANGED <<receive_loop, dispatchVars, scenario, pollVars,
                   codecVars>>

\* A task that ends with no finally clause: the flag stays as it is
_reconnect_gemini_ends_flag_kept ==
    /\ reconnect_task' = NoTask
    /\ UNCHANGED is_reconnecting

\* _reconnect_gemini ends: its finally clause resets is_reconnecting
_reconnect_gemini_ends ==
    /\ reconnect_task' = NoTask
    /\ is_reconnecting' = FALSE

\* A timeout that leaves the buffered frames where they are
timed_out_buffer_kept(buffer) == buffer

\* _reconnect_gemini, the wait timed out: audio_buffer.clear()
timed_out(buffer) == <<>>

\* _reconnect_gemini, from its polling of is_connected to the first await
\* after it: the buffer is copied and cleared, or the wait times out
ReconnectPoll ==
    /\ due_reminders = <<>>
    /\ reconnect_task.pc = "wait"
    /\ audio_buffer' = IF is_connected THEN <<>> ELSE timed_out(audio_buffer)
    /\ enq' = <<>>
    /\ IF is_connected /\ audio_buffer # <<>>
       THEN /\ reconnect_task' = [pc |-> "flush", buffer_copy |-> audio_buffer]
            /\ UNCHANGED is_reconnecting
       ELSE _reconnect_gemini_ends
    /\ Ghost(Ev("poll", None, 0, IF is_connected THEN "flush" ELSE "timeout", FALSE))
    /\ UNCHANGED <<schedVars, handlerVars, geminiVars, frame, failures,
                   forwarded>>
    /\ UNCHANGED <<receive_loop, dispatchVars, scenario, pollVars,
                   codecVars>>

\* _reconnect_gemini, one round of the flush loop: the next chunk is sent and
\* the task sleeps, or send_audio raises and the loop is left; the task ends
\* (finally: is_reconnecting = False) when nothing is left to send
ReconnectFlush ==
    /\ due_reminders = <<>>
    /\ reconnect_task.pc = "flush"
    /\ IF reconnect_task.buffer_copy = <<>>
       THEN /\ _reconnect_gemini_ends
            /\ UNCHANGED <<failures, forwarded>>
            /\ Ghost(Ev("flush", None, 0, "done", FALSE))
       ELSE \E outcome \in send_audio :
              /\ failures' = CountFailure(outcome)
              /\ IF outcome = "sent"
                 THEN /\ reconnect_task' =
                           [reconnect_task EXCEPT !.buffer_copy = Tail(@)]
                      /\ forwarded' = Forward(Head(reconnect_task.buffer_copy))
                      /\ UNCHANGED is_reconnecting
                 ELSE /\ _reconnect_gemini_ends
                      /\ UNCHANGED forwarded
              /\ Ghost(Ev("flush", None, 0, outcome, FALSE))
    /\ UNCHANGED <<schedVars, handlerVars, geminiVars, audio_buffer, frame, enq>>
    /\ UNCHANGED <<receive_loop, dispatchVars, scenario, pollVars,
                   codecVars>>

\* A user of the client opens a session with token c
SessionConnect(c) ==
    /\ due_reminders = <<>>
    /\ \E ok \in BOOLEAN :
         /\ connect(c, ok)
         /\ Ghost(Ev("connect", None, c, "", ~ok))
    /\ UNCHANGED <<schedVars, handlerVars, bridgeVars>>
    /\ UNCHANGED <<dispatchVars, scenario, pollVars,
                   codecVars>>

\* A user of the client calls disconnect()
SessionDisconnect ==
    /\ due_reminders = <<>>
    /\ \E ok \in BOOLEAN :
         /\ disconnect(ok)
         /\ Ghost(Ev("disconnect", None, _session_context, DisconnectOutcome(ok),
                     disconnect_raises(ok)))
    /\ UNCHANGED <<schedVars, handlerVars, bridgeVars>>
    /\ UNCHANGED <<receive_loop, dispatchVars, scenario, pollVars,
                   codecVars>>

\* A user of the client sends audio or text into the session
SessionSend(method) ==
    /\ due_reminders = <<>>
    /\ \E outcome \in IF method = "send_audio" THEN send_audio ELSE send_text :
         /\ failures' = CountFailure(outcome)
         /\ Ghost(Ev(method, None, session, outcome, outcome # "sent"))
    /\ UNCHANGED <<schedVars, handlerVars, geminiVars, audio_buffer,
                   is_reconnecting, reconnect_task, frame, enq, forwarded>>
    /\ UNCHANGED <<receive_loop, dispatchVars, scenario, pollVars,
                   codecVars>>

\* ------------------------------------- GeminiLiveClient: function calls
\* The functions declared to the model (get_function_declarations), cut to
\* three: two that _register_sub_agents registers a handler for, and
\* send_message, which is declared with no handler
FunctionNames == {"manage_reminder", "lookup_user_info", "send_message"}

\* GeminiLiveClient.function_handlers (its keys) after _register_sub_agents
function_handlers == {"manage_reminder", "lookup_user_info"}

\* The ids the model gives the function calls of one batch
FunctionCallIds == {1, 2}

\* The batches of function calls: the k-th call of a batch has id k
ToolCalls ==
    {b \in UNION {[1..n -> [id : FunctionCallIds, name : FunctionNames]] :
                    n \in 1..Cardinality(FunctionCallIds)} :
        \A k \in DOMAIN b : b[k].id = k}

\* ReminderAgent._list_reminders: the text it returns
_list_reminders(tbl) ==
    IF get_reminders(tbl) = <<>> THEN "no_reminders" ELSE "your_reminders"

\* What the registered handler of fn_name can do: manage_reminder is called
\* with action "list" and returns the listing; lookup_user_info returns the
\* information or raises (args["query"] is not a string)
handler(fn_name, tbl) ==
    IF fn_name = "manage_reminder"
    THEN {[raised |-> FALSE, result |-> _list_reminders(tbl)]}
    ELSE {[raised |-> FALSE, result |-> "info"],
          [raised |-> TRUE, result |-> "exception"]}

\* session.send of a function response: it returns ("sent") or raises; with
\* no session (disconnect() ran meanwhile) it can only raise
session_send == IF session = None THEN {"error"} ELSE {"sent", "error"}

\* types.FunctionResponse(id=fc.id, name=fn_name, response={kind: text})
FunctionResponse(fc, kind, text) ==
    [id |-> fc.id, name |-> fc.name, kind |-> kind, text |-> text]

\* The for loop with no try around the handler: what the handler raises
\* leaves _handle_function_calls
_handle_function_call_uncaught(fc, h, send_result, send_error) ==
    LET known == fc.name \in function_handlers
    IN IF known /\ h.raised
       THEN [sent |-> <<>>, raised |-> TRUE]
       ELSE IF known /\ send_result = "sent"
       THEN [sent |-> <<FunctionResponse(fc, "result", h.result)>>,
             raised |-> FALSE]
       ELSE [sent |-> IF send_error = "sent"
                      THEN <<FunctionResponse(fc, "error", "No handler")>>
                      ELSE <<>>,
             raised |-> send_error # "sent"]

\* _handle_function_calls, one round of its for loop for function call fc:
\* h is what the handler does, send_result and send_error what session.send
\* does with the result and with the error response.  The result is sent
\* inside the try that guards the handler, so a send that raises is answered
\* with an error response; an error response whose send raises lets the
\* exception leave _handle_function_calls.
_handle_function_call(fc, h, send_result, send_error) ==
    LET known == fc.name \in function_handlers
        returned == known /\ ~h.raised
    IN IF returned /\ send_result = "sent"
       THEN [sent |-> <<FunctionResponse(fc, "result", h.result)>>,
             raised |-> FALSE]
       ELSE [sent |-> IF send_error = "sent"
                      THEN <<FunctionResponse(fc, "error",
                                IF ~known THEN "No handler"
                                ELSE IF h.raised THEN h.result
                                ELSE "send failed")>>
                      ELSE <<>>,
             raised |-> send_error # "sent"]

\* _receive_loop: session.receive() is exhausted, the provider has ended a
\* turn (or the session was closed); the loop sleeps before its next round
TurnComplete ==
    /\ due_reminders = <<>>
    /\ receive_loop = "listening"
    /\ receive_loop' = "pausing"
    /\ Ghost(Ev("turn_complete", None, 0, "", FALSE))
    /\ UNCHANGED <<schedVars, handlerVars, geminiVars, bridgeVars, dispatchVars,
                   scenario, pollVars, codecVars>>

\* A loop that returns when the provider's stream ends
resume_never(connected) == "ended"

\* _receive_loop, `while self.is_connected` after the sleep: the loop goes
\* back to session.receive(), or ends if the client was disconnected
resume(connected) == IF connected THEN "listening" ELSE "ended"

ReceiveResume ==
    /\ due_reminders = <<>>
    /\ receive_loop = "pausing"
    /\ receive_loop' = resume(is_connected)
    /\ Ghost(Ev("resume", None, 0, "", FALSE))
    /\ UNCHANGED <<schedVars, handlerVars, geminiVars, bridgeVars, dispatchVars,
                   scenario, pollVars, codecVars>>

\* _receive_loop: a response with a tool_call arrives from the session
ToolCall(function_calls) ==
    /\ due_reminders = <<>>
    /\ receive_loop = "listening" /\ is_connected /\ session # None
    /\ receive_loop' = "dispatching"
    /\ tool_call' = function_calls
    /\ handling' = 1
    /\ function_responses' = <<>>
    /\ handled' = <<>>
    /\ Ghost(Ev("tool_call", None, session, "", FALSE))
    /\ UNCHANGED <<schedVars, handlerVars, geminiVars, bridgeVars, scenario,
                   pollVars, codecVars>>

\* _handle_function_calls: the for loop handles its next function call and
\* goes on, returns to the receive loop after the last one, or lets an
\* exception through to the receive loop, which ends (is_connected = False)
HandleFunctionCall ==
    /\ due_reminders = <<>>
    /\ receive_loop = "dispatching"
    /\ LET fc == tool_call[handling]
           known == fc.name \in function_handlers
       IN \E h \in IF known THEN handler(fc.name, reminders)
                   ELSE {[raised |-> FALSE, result |-> ""]},
             send_result \in session_send, send_error \in session_send :
            LET did == _handle_function_call(fc, h, send_result, send_error)
                returned == known /\ ~h.raised
                outcome == IF ~known THEN "none"
                           ELSE IF h.raised THEN "raised" ELSE "returned"
            IN /\ function_responses' = function_responses \o did.sent
               /\ handled' = Append(handled,
                     [handler |-> outcome,
                      send_raised |->
                          \/ returned /\ send_result # "sent"
                          \/ ~(returned /\ send_result = "sent")
                             /\ send_error # "sent",
                      connected |-> is_connected])
               /\ IF did.raised
                  THEN /\ receive_loop' = "ended"
                       /\ is_connected' = FALSE
                       /\ UNCHANGED handling
                  ELSE /\ receive_loop' = IF handling < Len(tool_call)
                                          THEN "dispatching" ELSE "listening"
                       /\ handling' = handling + 1
                       /\ UNCHANGED is_connected
               /\ Ghost(Ev("dispatch", None, fc.id, outcome, did.raised))
    /\ UNCHANGED <<schedVars, handlerVars, _session_context, session,
                   bridgeVars, tool_call, scenario, pollVars,
                   codecVars>>

\* ------------------------------------------------------ the environment
\* The user calls the agent's number (voice_webhook answers with a stream)
IncomingCall(max_calls) ==
    /\ Len(calls) < max_calls
    /\ calls' = Append(calls, NewCall(None, "live", <<>>))
    /\ Ghost(Ev("incoming", None, Len(calls) + 1, "", FALSE))
    /\ UNCHANGED <<schedVars, pending_reminder, active_connections, geminiVars,
                   bridgeVars>>
    /\ UNCHANGED <<receive_loop, dispatchVars, scenario, pollVars,
                   codecVars>>

\* The callee picks up an outbound call
Answer(c) ==
    /\ calls[c].phase = "ringing"
    /\ calls' = [calls EXCEPT ![c].phase = "live",
                              ![c].whq = Append(@, "in-progress")]
    /\ Ghost(Ev("answer", calls[c].reminder, c, "", FALSE))
    /\ UNCHANGED <<schedVars, pending_reminder, active_connections, geminiVars,
                   bridgeVars>>
    /\ UNCHANGED <<receive_loop, dispatchVars, scenario, pollVars,
                   codecVars>>

\* An outbound call ends without having been picked up
NotAnswered(c) ==
    /\ calls[c].phase = "ringing"
    /\ \E call_status \in Unanswered :
         /\ calls' = [calls EXCEPT ![c].phase = "over",
                                   ![c].whq = Append(@, call_status)]
         /\ Ghost(Ev("unanswered", calls[c].reminder, c, call_status, FALSE))
    /\ UNCHANGED <<schedVars, pending_reminder, active_connections, geminiVars,
                   bridgeVars>>
    /\ UNCHANGED <<receive_loop, dispatchVars, scenario, pollVars,
                   codecVars>>

\* A call in progress is hung up
Hangup(c) ==
    /\ calls[c].phase = "live"
    /\ calls' = [calls EXCEPT ![c].phase = "over",
                   ![c].whq = IF calls[c].reminder # None
                              THEN Append(@, "completed") ELSE @]
    /\ Ghost(Ev("hangup", calls[c].reminder, c, "", FALSE))
    /\ UNCHANGED <<schedVars, pending_reminder, active_connections, geminiVars,
                   bridgeVars>>
    /\ UNCHANGED <<receive_loop, dispatchVars, scenario, pollVars,
                   codecVars>>

\* Time passes
AdvanceTime(max_time) ==
    /\ clock < max_time
    /\ clock' = clock + 1
    /\ Ghost(Ev("time", None, 0, "", FALSE))
    /\ UNCHANGED <<reminders, in_phone_call, pending_reminder_id,
                   call_was_answered, tick_now, due_reminders, handlerVars,
                   geminiVars, bridgeVars>>
    /\ UNCHANGED <<receive_loop, dispatchVars, scenario, pollVars,
                   codecVars>>

\* ------------------------------------------------------- specification
Recurrences == {[recurrence |-> "none", days_of_week |-> {}],
                [recurrence |-> "daily", days_of_week |-> {}],
                [recurrence |-> "weekly", days_of_week |-> {"monday"}],
                [recurrence |-> "weekly", days_of_week |-> {}]}

\* Reminders created at instant 0 and scheduled on the first day
InitTimes == {0, 1}

InitReminder(k, t) ==
    [datetime |-> t, recurrence |-> k.recurrence, days_of_week |-> k.days_of_week,
     active |-> TRUE, last_triggered |-> Never, created_at |-> 0]

InitRest(rows, frames, failing) ==
    /\ scenario = [frames |-> frames, failures |-> failing]
    /\ running = TRUE
    /\ start_task = "sleeping"
    /\ forwarded = [last |-> 0, latest |-> 0,
                    context |-> [pending |-> None, texts |-> <<>>]]
    /\ clock = 0
    /\ reminders \in [ReminderIds -> UNION {rows[i] : i \in ReminderIds}]
    /\ \A i \in ReminderIds : reminders[i] \in rows[i]
    /\ in_phone_call = FALSE
    /\ pending_reminder_id = None
    /\ call_was_answered = FALSE
    /\ tick_now = 0
    /\ due_reminders = <<>>
    /\ pending_reminder = None
    /\ active_connections = {}
    /\ calls = <<>>
    /\ _session_context = None
    /\ session = None
    /\ is_connected = FALSE
    /\ audio_buffer = <<>>
    /\ is_reconnecting = FALSE
    /\ reconnect_task = NoTask
    /\ frame = 0
    /\ failures = 0
    /\ enq = <<>>
    /\ receive_loop = "none"
    /\ tool_call = <<>>
    /\ handling = 1
    /\ function_responses = <<>>
    /\ handled = <<>>
    /\ ev = [op |-> "init", id |-> None, call |-> 0, arg |-> "", raised |-> FALSE,
             pend0 |-> None]
    /\ fired = [i \in ReminderIds |-> [first |-> Never, last |-> Never, n |-> 0]]
    /\ tick = NoTick

InitOf(rows, frames, failing) ==
    /\ InitRest(rows, frames, failing)
    /\ audio = NoAudio

InitWith(rows) == InitOf(rows, MaxFrames, MaxFailures)

\* The scheduler's poll loop
SchedulerNext(max_calls) ==
    \/ _check_reminders
    \/ _handle_due_reminder(max_calls)

\* The telephone calls, their status callbacks and media streams
TelephonyNext(max_calls) ==
    \/ IncomingCall(max_calls)
    \/ \E c \in 1..Len(calls) :
         \/ status_webhook(c)
         \/ StreamOpen(c)
         \/ StreamStart(c)
         \/ StreamStop(c)
         \/ StreamClosed(c)
         \/ StreamFinally(c)
         \/ Answer(c)
         \/ NotAnswered(c)
         \/ Hangup(c)

\* The scheduler over several days with every kind of reminder; a call it
\* places stays ringing.
InitSchedule ==
    InitWith([i \in ReminderIds |->
                {InitReminder(k, t) : k \in Recurrences, t \in InitTimes}])

NextSchedule ==
    \/ SchedulerNext(MaxCallsSchedule)
    \/ AdvanceTime((MaxDay + 1) * DayLen - 1)

SpecSchedule == InitSchedule /\ [][NextSchedule]_vars

\* Both reminders due at instant 0: the first is non-recurring, the second
\* non-recurring or daily
DueReminders ==
    [i \in ReminderIds |->
        {InitReminder(k, 0) : k \in {x \in Recurrences :
            \/ x.recurrence = "none"
            \/ i # 1 /\ x.recurrence = "daily"}}]

\* The poll loop over several days, with a recurring reminder whose
\* rescheduling raises on the last day of a month, until stop() is called.
\* The event loop resumes start() when its sleep is over.
InitPoll ==
    InitWith([i \in ReminderIds |->
                {InitReminder(k, 0) : k \in {x \in Recurrences :
                    IF i = 1 THEN x.recurrence = "daily"
                    ELSE x.recurrence = "none"}}])

NextPoll ==
    \/ NextSchedule
    \/ stop
    \/ start_returns
    \/ shutdown_async

SpecPoll == InitPoll /\ [][NextPoll]_vars /\ WF_vars(_check_reminders)

\* The two conversions applied in turn to one frame of the session's audio
Samples == {0, 1000, -32768}

Frames == UNION {[1..n -> Samples] : n \in 0..MaxSamples}

InitAudio ==
    /\ InitRest([i \in ReminderIds |->
                   {InitReminder(CHOOSE k \in Recurrences : k.recurrence = "none", 0)}],
                0, 0)
    /\ audio \in {[stage |-> "gemini", input |-> x, data |-> x] : x \in Frames}

NextAudio ==
    \/ send_audio_to_twilio
    \/ MediaDecode

SpecAudio == InitAudio /\ [][NextAudio]_vars

\* The scheduler and one call over the first instants, with a recurring
\* reminder of every kind due next to a non-recurring one
RecurringReminders ==
    [i \in ReminderIds |->
        {InitReminder(k, 0) : k \in {x \in Recurrences :
            IF i = 1 THEN x.recurrence = "none" ELSE x.recurrence # "none"}}]

InitRecurring == InitOf(RecurringReminders, 0, 0)

NextRecurring ==
    \/ SchedulerNext(MaxCallsBridge)
    \/ TelephonyNext(MaxCallsBridge)
    \/ AdvanceTime(MaxTimeRecurring)

SpecRecurring == InitRecurring /\ [][NextRecurring]_vars

\* The scheduler and overlapping calls at one instant, both reminders due;
\* the calls carry no media frames and no send into the session fails
InitCalls == InitOf(DueReminders, 0, 0)

NextCalls ==
    \/ SchedulerNext(MaxCalls)
    \/ TelephonyNext(MaxCalls)

SpecCalls == InitCalls /\ [][NextCalls]_vars

\* One call's media bridge: the stream handler, the frames of the caller's
\* audio, the reconnection task and the session's receive loop.  The
\* scheduler stays idle.
InitBridge ==
    InitWith([i \in ReminderIds |->
                {InitReminder(k, 0) : k \in {x \in Recurrences : x.recurrence = "none"}}])

BridgeNext(max_calls) ==
    \/ IncomingCall(max_calls)
    \/ _receive_loop_error
    \/ ReconnectPoll
    \/ ReconnectFlush
    \/ \E c \in 1..Len(calls) :
         \/ StreamOpen(c)
         \/ StreamStart(c)
         \/ Media(c)
         \/ StreamStop(c)
         \/ StreamClosed(c)
         \/ StreamFinally(c)
         \/ Hangup(c)

NextBridge == BridgeNext(MaxCallsBridge)

SpecBridge == InitBridge /\ [][NextBridge]_vars

\* The media bridge of a short call in which two frames may fail, so that
\* the reconnection task can run twice
InitOrder ==
    InitOf([i \in ReminderIds |->
              {InitReminder(k, 0) : k \in {x \in Recurrences : x.recurrence = "none"}}],
           MaxFramesOrder, MaxFailuresOrder)

SpecOrder == InitOrder /\ [][NextBridge]_vars

\* The media bridge of a short call under the scheduling of the event loop:
\* the reconnection task, once created, is resumed whenever its sleep is
\* over, and the finally block of the stream handler goes on once
\* disconnect() has returned.  The messages of the socket and the faults of
\* the session come from outside and are under no fairness.
SpecStall ==
    /\ InitOrder
    /\ [][NextBridge]_vars
    /\ WF_vars(ReconnectPoll)
    /\ WF_vars(ReconnectFlush)
    /\ \A c \in 1..MaxCallsBridge : WF_vars(c <= Len(calls) /\ StreamFinally(c))

\* The media bridge of a short call in which media messages may also carry
\* a payload that cannot be decoded, and the session answers with audio
NextDecode ==
    \/ NextBridge
    \/ on_audio_response
    \/ \E c \in 1..Len(calls) : MediaUndecodable(c)

SpecDecode == InitOrder /\ [][NextDecode]_vars

\* The media bridge of two calls handled by the one handler, one after the
\* other or at once, with a frame whose send fails
InitCarry ==
    InitOf([i \in ReminderIds |->
              {InitReminder(k, 0) : k \in {x \in Recurrences : x.recurrence = "none"}}],
           MaxFramesCarry, MaxFailuresCarry)

NextCarry == BridgeNext(MaxCalls)

SpecCarry == InitCarry /\ [][NextCarry]_vars

\* The scheduler and one call, inbound or placed for a reminder, with its
\* media bridge: the texts sent at the opening of the stream and the frames
\* forwarded after it
InitAnnounce == InitOf(DueReminders, MaxFramesAnnounce, MaxFailuresAnnounce)

NextAnnounce ==
    \/ SchedulerNext(MaxCallsBridge)
    \/ TelephonyNext(MaxCallsBridge)
    \/ _receive_loop_error
    \/ ReconnectPoll
    \/ ReconnectFlush
    \/ \E c \in 1..Len(calls) : Media(c)

SpecAnnounce == InitAnnounce /\ [][NextAnnounce]_vars

\* The session client on its own: sessions are opened, dropped by the
\* provider and disconnected in any order.
SessionIds == {1, 2, 3}

NextSession ==
    \/ \E c \in SessionIds : SessionConnect(c)
    \/ SessionDisconnect
    \/ \E method \in {"send_audio", "send_text"} : SessionSend(method)
    \/ _receive_loop_error

SpecSession == InitBridge /\ [][NextSession]_vars

\* The session's receive loop and the function calls of the model: batches
\* arrive while the session is opened, dropped and disconnected; the
\* reminders are active or not.
InitDispatch ==
    InitWith([i \in ReminderIds |->
                {[InitReminder(k, 0) EXCEPT !.active = a] :
                    k \in {x \in Recurrences : x.recurrence = "none"},
                    a \in BOOLEAN}])

NextDispatch ==
    \/ \E c \in SessionIds : SessionConnect(c)
    \/ SessionDisconnect
    \/ _receive_loop_error
    \/ \E function_calls \in ToolCalls : ToolCall(function_calls)
    \/ HandleFunctionCall
    \/ TurnComplete
    \/ ReceiveResume

SpecDispatch == InitDispatch /\ [][NextDispatch]_vars

\* ---------------------------------------------------------- properties
Min(a, b) == IF a <= b THEN a ELSE b

InSeq(s, x) == \E k \in 1..Len(s) : s[k] = x
Count(s, x) == Cardinality({k \in 1..Len(s) : s[k] = x})

\* the reminder call c was placed for, or None
ReminderOf(c) == calls[c].reminder

\* C2: once a reminder call has been placed and CallStatus=no-answer arrives
\* for it, the call never having connected, the reminder is scheduled at
\* now + 5 minutes, is still active, and the pending association is cleared.
C2_NoAnswerReschedules ==
    \A c \in 1..Len(calls) :
        (/\ ev.op = "status" /\ ev.call = c /\ ev.arg = "no-answer"
         /\ ReminderOf(c) # None
         /\ ev.pend0 = ReminderOf(c)
         /\ calls[c].stream = "none")
        => /\ reminders[ReminderOf(c)].datetime = clock + RescheduleDelay
           /\ reminders[ReminderOf(c)].active
           /\ pending_reminder_id = None

\* C3: a tick run while not in a call invokes the call trigger exactly once
\* for every non-recurring reminder it found due, and ends with
\* pending_reminder_id equal to that reminder's id and call_was_answered false.
C3_TickTriggersOnce ==
    (ev.op = "handle" /\ due_reminders = <<>> /\ ~in_phone_call)
    => \A i \in ReminderIds :
          (InSeq(tick.due, i) /\ reminders[i].recurrence = "none")
          => /\ Count(tick.called, i) = 1
             /\ pending_reminder_id = i
             /\ ~call_was_answered

\* C4: a call placed for a non-recurring reminder whose events were, in this
\* order, stream start, CallStatus=in-progress, CallStatus=completed and the
\* stop event leaves the reminder inactive and no pending association.
C4_DeliveredCallCompletes ==
    \A c \in 1..Len(calls) :
        (/\ ev.op = "stop" /\ ev.call = c
         /\ calls[c].log = DeliverySequence
         /\ ReminderOf(c) # None
         /\ reminders[ReminderOf(c)].recurrence = "none")
        => /\ ~reminders[ReminderOf(c)].active
           /\ pending_reminder_id = None

\* C5: the scheduler never invokes the call trigger (and so never overwrites
\* pending_reminder_id) while the call placed for the pending reminder is
\* still ringing or in progress.
C5_SingleReminderInFlight ==
    (ev.op = "handle" /\ ev.arg # "in-call")
    => ~(/\ ev.pend0 # None
         /\ \E c \in 1..Len(calls) :
              /\ c # ev.call
              /\ ReminderOf(c) = ev.pend0
              /\ calls[c].phase # "over")

\* C6: when the call for a due reminder could not be placed, the handling of
\* that reminder ends with pending_reminder_id = None.
C6_FailedTriggerClearsPending ==
    (ev.op = "handle" /\ ev.arg = "failed") => pending_reminder_id = None

IsWeeklyMonday(r) == r.recurrence = "weekly" /\ r.days_of_week = {"monday"}

StampedToday(r) ==
    r.last_triggered # Never /\ DateOf(r.last_triggered) = DateOf(clock)

C8_DailyOncePerDate ==
    \A i \in ReminderIds :
        reminders[i].recurrence = "daily" => fired[i].n <= 1

\* C9: after its first trigger, a weekly reminder with an empty weekday set is
\* returned by get_due_reminders only on the weekday it was created on.
C9_WeeklyNoDaysOnCreationWeekday ==
    \A i \in ReminderIds :
        (/\ reminders[i].recurrence = "weekly"
         /\ reminders[i].days_of_week = {}
         /\ fired[i].first # Never
         /\ fired[i].last # fired[i].first)
        => DayName(fired[i].last) = DayName(reminders[i].created_at)


C10_DisconnectLeavesDisconnected ==
    ev.op = "disconnect" => ~ev.raised /\ ~is_connected


\* the function responses sent for the k-th function call of the batch
ResponsesTo(k) ==
    {j \in 1..Len(function_responses) :
        function_responses[j].id = tool_call[k].id}

\* C11: for every function call of a batch handled by _handle_function_calls
\* exactly one function response is sent into the session, with the call's
\* id and name: a result when its handler returned, an error when the
\* handler raised or the name has no handler; and once the batch is no
\* longer being handled every call of it has been handled.
C11_OneResponsePerCall ==
    /\ \A k \in 1..Len(handled) :
          /\ Cardinality(ResponsesTo(k)) = 1
          /\ \A j \in ResponsesTo(k) :
                /\ function_responses[j].name = tool_call[k].name
                /\ function_responses[j].kind =
                     IF handled[k].handler = "returned" THEN "result"
                     ELSE "error"
    /\ receive_loop # "dispatching" => Len(handled) = Len(tool_call)

C20_EmptyListAnswered ==
    \A k \in 1..Len(handled) :
        (tool_call[k].name = "manage_reminder" /\ get_reminders(reminders) = <<>>)
        => /\ Cardinality(ResponsesTo(k)) = 1
           /\ \A j \in ResponsesTo(k) :
                /\ function_responses[j].kind = "result"
                /\ function_responses[j].text = "no_reminders"
           /\ ~(k = Len(handled) /\ receive_loop = "ended")

C14_FramesForwardedInOrder ==
    forwarded.last = forwarded.latest

\* C15: at most one _reconnect_gemini task runs at a time: a task is started
\* only while is_reconnecting is false and no task is running, a running
\* task is never started anew, and is_reconnecting is true exactly while
\* the task runs (false once it has ended).
C15_OneReconnectTask ==
    [][/\ is_reconnecting' <=> reconnect_task'.pc # "none"
       /\ (reconnect_task.pc = "none" /\ reconnect_task'.pc # "none")
          => ~is_reconnecting /\ reconnect_task'.pc = "wait"
       /\ reconnect_task.pc = "wait"
          => reconnect_task'.pc \in {"wait", "flush", "none"}
       /\ reconnect_task.pc = "flush"
          => reconnect_task'.pc \in {"flush", "none"}]_vars

\* C15 witness: a frame has arrived and been buffered while the second
\* reconnection task of the call is flushing
C15_Witness ==
    /\ ev.op = "media" /\ ev.arg = "buffered"
    /\ failures = 2
    /\ is_reconnecting /\ reconnect_task.pc = "flush"

\* C16: two calls in progress each own their LiveSession: while a call's
\* stream handler is between its connect and its cleanup, the client's
\* session is the one that call opened, whatever the other call connected
\* or ended meanwhile.
C16_EachCallOwnsItsSession ==
    \A c \in 1..Len(calls) :
        calls[c].stream \in {"open", "started"} => session = c

\* C17: whenever handle_media_stream has ended for a call (after the stop
\* event, the socket's close or an error) is_connected is false, the call
\* has no entry in active_connections and in_phone_call is false.
C17_StreamEndCleansUp ==
    \A c \in 1..Len(calls) :
        (/\ ev.op \in {"open", "stop", "closed", "finally"} /\ ev.call = c
         /\ calls[c].stream = "closed")
        => /\ ~is_connected
           /\ c \notin active_connections
           /\ ~in_phone_call

C19_TickExceptionKeepsLoop ==
    /\ [](ev.op = "handle" /\ ev.raised => start_task = "sleeping")
    /\ (ev.op = "handle" /\ ev.raised) ~> (ev.op = "tick" \/ ~running)

\* C19 witness: a tick has raised while rescheduling a daily reminder, and
\* the poll loop is still running
C19_Witness ==
    /\ ev.op = "handle" /\ ev.raised
    /\ running /\ start_task = "sleeping" /\ due_reminders = <<>>

AllZero(fragment) == \A k \in DOMAIN fragment : fragment[k] = 0

\* C21: a frame of the session's audio taken through the caller-bound
\* conversion and then the session-bound conversion has the length of the
\* input scaled by the two rate ratios (one third, then three times: the
\* input's length, for a length the ratio divides), and a frame of silence
\* comes back as silence.
C21_RoundTripLengthAndSilence ==
    audio.stage = "session"
    => /\ Len(audio.input) % (GeminiRate \div TwilioRate) = 0
          => Len(audio.data) = Len(audio.input)
       /\ AllZero(audio.input) => AllZero(audio.data)

\* C22: the pending association is consumed exactly once: of the two
\* set_in_call(false) notifications of an ended call, the stop event and the
\* handler's cleanup, the first resolves the association and the second
\* writes nothing to the store and consumes nothing.
C22_PendingConsumedOnce ==
    [][\A c \in 1..Len(calls) :
         (/\ calls[c].stream = "stopping" /\ calls[c].stopped
          /\ calls'[c].stream = "closed")
         => /\ reminders' = reminders
            /\ pending_reminder_id' = pending_reminder_id]_vars

\* C23: a tick that handles a due reminder while in_phone_call is true
\* invokes no call trigger and leaves the pending association as it is; it
\* marks the reminder inactive if and only if the reminder does not recur.
C23_InCallTickPlacesNoCall ==
    [][(due_reminders # <<>> /\ due_reminders' # due_reminders /\ in_phone_call)
       => LET id == Head(due_reminders) IN
          /\ ev'.op = "handle" /\ ev'.id = id /\ ev'.arg = "in-call"
          /\ calls' = calls
          /\ tick'.called = tick.called
          /\ pending_reminder_id' = pending_reminder_id
          /\ call_was_answered' = call_was_answered
          /\ pending_reminder' = pending_reminder
          /\ reminders[id].recurrence = "none" => ~reminders'[id].active
          /\ reminders[id].recurrence # "none"
             => reminders'[id].active = reminders[id].active]_vars

\* C23 witness: a tick during a call has handled both reminders: the
\* non-recurring one is inactive, the daily one still active, and the
\* association pending before the tick is the one pending after it
C23_Witness ==
    /\ ev.op = "handle" /\ ev.arg = "in-call" /\ ev.id = 2
    /\ in_phone_call
    /\ reminders[1].recurrence = "none" /\ ~reminders[1].active
    /\ reminders[2].recurrence = "daily" /\ reminders[2].active
    /\ reminders[2].last_triggered # Never
    /\ pending_reminder_id = ev.pend0

\* C24: every reminder a tick handles as due has last_triggered stamped
\* when its handling ends: in the in-call branch, when the call was placed
\* and when the call trigger failed.
C24_HandledReminderIsStamped ==
    [][(due_reminders # <<>> /\ due_reminders' # due_reminders)
       => LET id == Head(due_reminders) IN
          /\ ev'.op = "handle" /\ ev'.id = id
          /\ ev'.arg \in {"in-call", "placed", "failed"}
          /\ reminders'[id].last_triggered = clock]_vars

\* C24 witness: in one tick a call was placed for the first reminder, and
\* the call trigger failed for the second, a daily one whose rescheduling
\* raised: both carry the stamp
C24_Witness ==
    /\ ev.op = "handle" /\ ev.arg = "failed" /\ ev.id = 2 /\ ev.raised
    /\ reminders[2].recurrence = "daily"
    /\ reminders[2].last_triggered = clock
    /\ tick.called = <<1, 2>> /\ Len(calls) = 1 /\ calls[1].reminder = 1
    /\ reminders[1].last_triggered = clock

\* C25: no operation of the scheduler, a tick in either branch or the
\* resolution of an answered or unanswered call, clears the active flag of
\* a daily or weekly reminder: only reminders that do not recur go from
\* active to inactive.
C25_RecurringStaysActive ==
    [][\A i \in ReminderIds :
         (reminders[i].active /\ ~reminders'[i].active)
         => reminders[i].recurrence = "none"]_vars

\* C25 witness: the call placed for a weekly reminder was answered and has
\* ended, the association is resolved and the reminder is still active
C25_Witness ==
    /\ Len(calls) = 1 /\ calls[1].reminder = 2
    /\ calls[1].log = DeliverySequence
    /\ ev.op = "stop" /\ ev.pend0 = 2 /\ pending_reminder_id = None
    /\ reminders[2].recurrence = "weekly" /\ reminders[2].active

\* C26: when a daily reminder fires at a tick at instant now, its next
\* scheduled instant is its time of day on the day after now's date if its
\* slot on now's date is not after now, on every date, the last day of a
\* month included; if the slot on now's date is still to come, it is that slot.
C26_DailyAdvancesToNextDay ==
    [][(due_reminders # <<>> /\ due_reminders' # due_reminders
        /\ reminders[Head(due_reminders)].recurrence = "daily")
       => LET id == Head(due_reminders)
              slot == DateOf(tick_now) * DayLen + TimeOfDay(reminders[id].datetime)
          IN reminders'[id].datetime =
                IF slot <= tick_now THEN slot + DayLen ELSE slot]_vars

\* C27: when a weekly reminder fires, its scheduled instant becomes the
\* instant stored before advanced by exactly one day, at the same time of
\* day, whichever weekday matched and also from the last day of a month.
C27_WeeklyAdvancesOneDay ==
    [][(due_reminders # <<>> /\ due_reminders' # due_reminders
        /\ reminders[Head(due_reminders)].recurrence = "weekly")
       => LET id == Head(due_reminders) IN
          reminders'[id].datetime = reminders[id].datetime + DayLen]_vars

\* C28: when the session is still not connected at the end of the grace
\* window, the reconnection attempt ends with the reconnection buffer empty
\* and is_reconnecting false, and it starts no further attempt.
C28_TimeoutEndsAttempt ==
    [][(reconnect_task.pc = "wait" /\ reconnect_task' # reconnect_task
        /\ ~is_connected)
       => /\ audio_buffer' = <<>>
          /\ is_reconnecting' = FALSE
          /\ reconnect_task' = NoTask]_vars

\* C28 witness: an attempt has timed out after frames of the caller were
\* buffered: the buffer is empty, no attempt is under way
C28_Witness ==
    /\ ev.op = "poll" /\ ev.arg = "timeout"
    /\ ~is_connected /\ frame > 1 /\ forwarded.latest = 0
    /\ audio_buffer = <<>> /\ ~is_reconnecting /\ reconnect_task = NoTask

C30_NoSendWhileReconnecting ==
    [][(frame' = frame + 1 /\ (is_reconnecting \/ ~is_connected))
       => /\ ev'.op = "media" /\ ev'.arg = "buffered"
          /\ forwarded'.last = forwarded.last
          /\ forwarded'.latest = forwarded.latest
          /\ failures' = failures
          /\ audio_buffer' = IF Len(audio_buffer) < max_buffer_size
                             THEN Append(audio_buffer, frame')
                             ELSE audio_buffer
          /\ UNCHANGED <<is_reconnecting, reconnect_task, geminiVars>>]_vars

\* C30 witness: a frame has arrived while the session was connected and the
\* reconnection task was flushing, and it went to the buffer
C30_Witness ==
    /\ ev.op = "media" /\ ev.arg = "buffered"
    /\ is_reconnecting /\ is_connected /\ reconnect_task.pc = "flush"
    /\ audio_buffer # <<>> /\ audio_buffer[Len(audio_buffer)] = frame

\* C31: a media message whose payload cannot be decoded, or whose frame
\* fails in the conversion or the send with an error that is no fault of the
\* connection, is dropped: the frame is neither buffered nor forwarded, the
\* stream of the call stays started (the loop goes on with the next
\* message), the call is not ended and no reconnection task is started
C31_FailedFrameIsDropped ==
    [][(ev'.op = "media" /\ ev'.arg \in {"undecodable", "error"})
         => /\ calls' = calls
            /\ calls'[ev'.call].stream = "started"
            /\ calls'[ev'.call].phase = "live"
            /\ UNCHANGED <<audio_buffer, enq, is_reconnecting, reconnect_task>>
            /\ forwarded'.last = forwarded.last
            /\ forwarded'.latest = forwarded.latest
            /\ UNCHANGED <<in_phone_call, active_connections, geminiVars>>]_vars

\* A frame has failed with an error that is no fault of the connection and
\* a later frame of the same call was forwarded to the session
C31_Witness ==
    /\ ev.op = "media" /\ ev.arg = "sent"
    /\ failures = 2
    /\ ~is_reconnecting /\ reconnect_task = NoTask
    /\ audio_buffer = <<>> /\ enq = <<>>
    /\ forwarded.latest = 3

\* C32: when make_call could not place the call for a due reminder, the
\* announcement stored on the handler for that call is rolled back: the
\* handling of the reminder ends with pending_reminder = None, and no later
\* call finds it at the opening of its stream.
C32_FailedPlacementRollsBack ==
    (ev.op = "handle" /\ ev.arg = "failed") => pending_reminder = None

\* C33: every media message sent to the caller carries the stream id of its
\* call: send_audio_to_twilio never sends a message whose streamSid is unset.
C33_DownlinkCarriesStreamId ==
    ev.op = "audio_response" => ev.arg = "tagged"

C35_NoBufferedAudioCarriedOver ==
    \A c \in 1..Len(calls) :
        (/\ ev.op = "flush" /\ ev.arg = "sent"
         /\ session = c /\ calls[c].stream = "open"
         /\ \A d \in 1..Len(calls) : d # c => calls[d].stream = "closed")
        => FALSE

\* C36: in every reachable state audio_buffer holds at most max_buffer_size
\* frames, whatever the interleaving of media frames, failing sends and
\* reconnection attempts.
C36_BufferBounded ==
    Len(audio_buffer) <= max_buffer_size

\* C36 witness: the buffer is full while a reconnection attempt waits for the
\* session, and one more frame has been offered to it
C36_Witness ==
    /\ Len(audio_buffer) = max_buffer_size
    /\ Len(enq) = max_buffer_size + 1
    /\ is_reconnecting /\ reconnect_task.pc = "wait"

\* C37: in_phone_call is true whenever at least one call's stream has
\* started and not yet ended, also when two calls overlap: the end of one
\* call does not clear the flag while another call's stream is live.
C37_InCallWhileAnyStreamLive ==
    (\E c \in 1..Len(calls) : calls[c].stream = "started") => in_phone_call

\* C38: a pending association is resolved only by the end of the call placed
\* for its reminder, with that call's own answered status: a step that
\* clears pending_reminder_id, or that changes call_was_answered while an
\* association is pending, is a step of a call placed for that reminder.
C38_ResolvedByOwnCallOnly ==
    [][(/\ pending_reminder_id # None
        /\ \/ pending_reminder_id' = None
           \/ /\ pending_reminder_id' = pending_reminder_id
              /\ call_was_answered' # call_was_answered)
       => /\ ev'.call \in 1..Len(calls)
          /\ calls[ev'.call].reminder = pending_reminder_id]_vars

\* A row that a call which was not answered has rescheduled.  The reminders
\* of SpecRecurring are scheduled at the first instant of a day and a next
\* occurrence keeps the time of day, so that only
\* reschedule_reminder(now + RescheduleDelay) moves a row off it.
Rescheduled(r) == TimeOfDay(r.datetime) # 0

\* C39: a reminder rescheduled after a call that was not answered is
\* retried: whatever its recurrence, while it is active it is among the due
\* reminders of every tick at or after the instant it was rescheduled to.
C39_RescheduledIsRetried ==
    ev.op = "tick"
    => \A i \in ReminderIds :
         (/\ reminders[i].active
          /\ Rescheduled(reminders[i])
          /\ reminders[i].datetime <= clock)
         => InSeq(tick.due, i)

\* C40: under the scheduling of the event loop no frame stays in the
\* reconnection buffer for ever: whenever audio_buffer holds frames, it is
\* emptied later on, its frames taken by the flush or discarded.
C40_BufferedFramesLeave ==
    (audio_buffer # <<>>) ~> (audio_buffer = <<>>)

====
